---- MODULE Spec2Model ----
(***************************************************************************)
(* Activation bot (src/main.py): the user directory (users.json), the      *)
(* activation ledger (activations.json), the two conversation handlers     *)
(* (login/menu/proof and operator bulk registration) and the operator's    *)
(* decision callbacks, as one state machine.                               *)
(*                                                                         *)
(* Text is modelled character by character: a Python str is a sequence of  *)
(* one-character strings, so that strip, lower, replace, split, the        *)
(* f-string that builds callback data and the regular expressions are      *)
(* computed as the code computes them.  Python's None is the sequence      *)
(* None (an element that is no character), chat ids are strings, a         *)
(* missing chat_id is NoChat and a missing message_id is 0.                *)
(***************************************************************************)
EXTENDS Integers, Sequences, FiniteSets, TLC

VARIABLES
    env,            \* os.getenv: [CHANNEL_ID, ADMIN_CHAT_ID]
    users,          \* Data/users.json: sequence of User records
    activations,    \* Data/activations.json: sequence of Activation records
    conv,           \* conv_handler: conversation state per identity
    admin_conv,     \* admin_conv_handler: conversation state per identity
    user_data,      \* context.user_data per identity
    pending,        \* process_activation_proof suspended at its channel send
    now,            \* datetime.now(), as a logical clock
    next_message_id,\* the message_id the transport gives the next sent message
    surfaces,       \* the (email, app, mobile) whose controls the channel received
    out             \* what the last handler sent: set of [to, kind, ref, text]

vars == <<env, users, activations, conv, admin_conv, user_data, pending, now,
          next_message_id, surfaces, out>>

----------------------------------------------------------------------------
(* Bounds of the model                                                     *)

MaxActs == 2        \* records the ledger may hold
MaxClock == 4       \* timestamps datetime.now() may hand out
MaxUsers == 3       \* records the user store may hold

----------------------------------------------------------------------------
(* Python values                                                           *)

None == <<"None">>
NoChat == "None"

Falsy(x) == x = None \/ x = <<>>
Truthy(x) == ~Falsy(x)

Whitespace == {" ", "\t", "\n", "\r"}
Digits == {"0", "1", "2", "3", "4", "5", "6", "7", "8", "9"}
Uppers == <<"A", "B", "C", "D", "E", "F", "G", "H", "I", "J", "K", "L", "M",
            "N", "O", "P", "Q", "R", "S", "T", "U", "V", "W", "X", "Y", "Z">>
Lowers == <<"a", "b", "c", "d", "e", "f", "g", "h", "i", "j", "k", "l", "m",
            "n", "o", "p", "q", "r", "s", "t", "u", "v", "w", "x", "y", "z">>
Letters == {Uppers[i] : i \in 1..Len(Uppers)} \cup {Lowers[i] : i \in 1..Len(Lowers)}

Min(S) == CHOOSE x \in S : \A y \in S : x <= y
Max(S) == CHOOSE x \in S : \A y \in S : x >= y

\* str.lower()
UpperToLower ==
    [c \in {Uppers[i] : i \in 1..Len(Uppers)} |->
        Lowers[CHOOSE i \in 1..Len(Uppers) : Uppers[i] = c]]
LowerChar(c) == IF c \in DOMAIN UpperToLower THEN UpperToLower[c] ELSE c
Lower(s) == [i \in 1..Len(s) |-> LowerChar(s[i])]

\* str.strip()
Strip(s) ==
    LET keep == {i \in 1..Len(s) : s[i] \notin Whitespace}
    IN  IF keep = {} THEN <<>> ELSE SubSeq(s, Min(keep), Max(keep))

\* str.replace(" ", "")
ReplaceSpaces(s) == SelectSeq(s, LAMBDA c : c # " ")

\* whether s has sep at position i
HasAt(s, sep, i) ==
    /\ i + Len(sep) - 1 <= Len(s)
    /\ \A k \in 1..Len(sep) : s[i + k - 1] = sep[k]

\* str.split(sep), sep not empty: left to right, non-overlapping
RECURSIVE SplitFrom(_, _, _, _)
SplitFrom(s, sep, start, i) ==
    IF i > Len(s) THEN <<SubSeq(s, start, Len(s))>>
    ELSE IF HasAt(s, sep, i)
         THEN <<SubSeq(s, start, i - 1)>>
              \o SplitFrom(s, sep, i + Len(sep), i + Len(sep))
         ELSE SplitFrom(s, sep, start, i + 1)
Split(s, sep) == SplitFrom(s, sep, 1, 1)

\* sep.join(parts)
RECURSIVE Join(_, _)
Join(parts, sep) ==
    IF parts = <<>> THEN <<>>
    ELSE IF Len(parts) = 1 THEN parts[1]
    ELSE parts[1] \o sep \o Join(Tail(parts), sep)

\* str.replace(old, ''): every occurrence of old is removed
RemoveAll(s, old) == Join(Split(s, old), <<>>)

\* re.match(r'^[a-zA-Z0-9._%+-]+@[a-zA-Z0-9.-]+\.[a-zA-Z]{2,}$', s)
LocalChars == Letters \cup Digits \cup {".", "_", "%", "+", "-"}
DomainChars == Letters \cup Digits \cup {".", "-"}
\* the pattern with a top-level domain of any length
EmailRegexShortTld(s) ==
    \E at \in 1..Len(s) : \E dot \in 1..Len(s) :
        /\ s[at] = "@" /\ s[dot] = "."
        /\ at >= 2 /\ dot >= at + 2 /\ Len(s) >= dot + 1
        /\ \A i \in 1..(at - 1) : s[i] \in LocalChars
        /\ \A i \in (at + 1)..(dot - 1) : s[i] \in DomainChars
        /\ \A i \in (dot + 1)..Len(s) : s[i] \in Letters
EmailRegex(s) ==
    \E at \in 1..Len(s) : \E dot \in 1..Len(s) :
        /\ s[at] = "@" /\ s[dot] = "."
        /\ at >= 2 /\ dot >= at + 2 /\ Len(s) >= dot + 2
        /\ \A i \in 1..(at - 1) : s[i] \in LocalChars
        /\ \A i \in (at + 1)..(dot - 1) : s[i] \in DomainChars
        /\ \A i \in (dot + 1)..Len(s) : s[i] \in Letters

\* re.fullmatch(r'\d{10}', s)
MobileDigits == 10
\* a pattern that takes up to ten digits
MobileRegexAtMost(s) == Len(s) <= MobileDigits /\ \A i \in 1..Len(s) : s[i] \in Digits
MobileRegex(s) == Len(s) = MobileDigits /\ \A i \in 1..Len(s) : s[i] \in Digits

----------------------------------------------------------------------------
(* Text constants of the program                                           *)

Angelone == <<"a", "n", "g", "e", "l", "o", "n", "e">>
Mstock == <<"m", "s", "t", "o", "c", "k">>
Upstox == <<"u", "p", "s", "t", "o", "x">>
Paytmmoney == <<"p", "a", "y", "t", "m", "m", "o", "n", "e", "y">>
Lemonn == <<"l", "e", "m", "o", "n", "n">>

\* the default content of Data/ec_app.txt, one app per line
APP_FILE == <<Paytmmoney, Angelone, Lemonn, Mstock, Upstox>>

SCREENSHOT_APPS == {Mstock, Angelone}

R77 == <<"7", "7">>
R78 == <<"7", "8">>
R79 == <<"7", "9">>
R80 == <<"8", "0">>
R81 == <<"8", "1">>
RNt == <<"n", "t">>
\* the keys of REJECTION_REASONS; the texts are named by their key
REJECTION_REASONS == {R77, R78, R79, R80, R81, RNt}
UnknownReason == <<"U", "n", "k", "n", "o", "w", "n", " ", "r", "e", "a", "s", "o", "n">>
ReasonText(code) == <<"text of ">> \o code
RejectionReasonsGet(code, default) ==
    IF code \in REJECTION_REASONS THEN ReasonText(code) ELSE default

PendingStr == <<"p", "e", "n", "d", "i", "n", "g">>
ZeroStr == <<"0">>
ApproveWord == <<"a", "p", "p", "r", "o", "v", "e">>
RejectWord == <<"r", "e", "j", "e", "c", "t">>
ReasonWord == <<"r", "e", "a", "s", "o", "n">>
AppWord == <<"a", "p", "p">>
Underscore == <<"_">>
Newline == <<"\n">>

\* conversation states
EMAIL == "EMAIL"
PASSWORD == "PASSWORD"
MAIN_MENU == "MAIN_MENU"
APP_SELECTION == "APP_SELECTION"
ACTIVATION_PROOF == "ACTIVATION_PROOF"
ADD_USER == "ADD_USER"
END == "END"

----------------------------------------------------------------------------
(* Helper functions over the two stores                                    *)

\* read_apps(): the lines of Data/ec_app.txt as the operator left them
read_apps ==
    LET lines == SelectSeq(env.APP_FILE, LAMBDA l : Strip(l) # <<>>)
    IN  [i \in 1..Len(lines) |-> Lower(Strip(lines[i]))]

\* read_activations with the app comparison inverted: it keeps the records of
\* the other apps
read_activations_app_inverted(acts, email, app, mobile) ==
    SelectSeq(acts, LAMBDA act :
        /\ ~(Truthy(email) /\ act.email # email)
        /\ ~(Truthy(app) /\ act.app = app)
        /\ ~(Truthy(mobile) /\ act.mobile # ReplaceSpaces(mobile)))

\* read_activations(email, app, mobile) over the loaded list acts
read_activations(acts, email, app, mobile) ==
    SelectSeq(acts, LAMBDA act :
        /\ ~(Truthy(email) /\ act.email # email)
        /\ ~(Truthy(app) /\ act.app # app)
        /\ ~(Truthy(mobile) /\ act.mobile # ReplaceSpaces(mobile)))

\* is_duplicate that counts approved records only
is_duplicate_approved_only(acts, app, mobile) ==
    \E i \in 1..Len(acts) :
        /\ acts[i].app = app
        /\ acts[i].mobile = ReplaceSpaces(mobile)
        /\ acts[i].status = "approved"

\* is_duplicate without its status test
is_duplicate_any_status(acts, app, mobile) ==
    \E i \in 1..Len(acts) :
        /\ acts[i].app = app
        /\ acts[i].mobile = ReplaceSpaces(mobile)

\* is_duplicate(app, mobile)
is_duplicate(acts, app, mobile) ==
    LET filtered == read_activations(acts, None, app, None)
        mobile_clean == ReplaceSpaces(mobile)
    IN  \E i \in 1..Len(filtered) :
            /\ filtered[i].mobile = mobile_clean
            /\ filtered[i].status \in {"pending", "approved"}

\* write_activation(email, app, mobile, status, reason) at time t
write_activation(acts, email, app, mobile, status, reason, t) ==
    Append(acts, [email |-> email,
                  mobile |-> ReplaceSpaces(mobile),
                  app |-> app,
                  status |-> status,
                  reason |-> reason,
                  timestamp |-> t,
                  submission_date |-> t,
                  message_id |-> 0])

\* the loop "for act in activations: if act matches (email, app, mobile): ...
\* break": the index of the first matching record, 0 when there is none
FirstMatch(acts, email, app, mobile) ==
    LET hits == {i \in 1..Len(acts) :
                    /\ acts[i].email = email
                    /\ acts[i].app = app
                    /\ acts[i].mobile = ReplaceSpaces(mobile)}
    IN  IF hits = {} THEN 0 ELSE Min(hits)

\* update_activation that leaves the stored reason as it is
update_activation_keep_reason(acts, email, app, mobile, status, reason, t) ==
    LET i == FirstMatch(acts, email, app, mobile)
    IN  IF i = 0
        THEN [acts |-> acts, updated |-> FALSE]
        ELSE [acts |-> [acts EXCEPT ![i].status = status,
                                    ![i].timestamp = t],
              updated |-> TRUE]

\* an update loop without the break: every matching record is rewritten
update_activation_all_matches(acts, email, app, mobile, status, reason, t) ==
    LET hits == {i \in 1..Len(acts) :
                    /\ acts[i].email = email
                    /\ acts[i].app = app
                    /\ acts[i].mobile = ReplaceSpaces(mobile)}
    IN  IF hits = {}
        THEN [acts |-> acts, updated |-> FALSE]
        ELSE [acts |-> [i \in 1..Len(acts) |->
                            IF i \in hits
                            THEN [acts[i] EXCEPT !.status = status,
                                                 !.reason = reason,
                                                 !.timestamp = t]
                            ELSE acts[i]],
              updated |-> TRUE]

\* update_activation(email, app, mobile, status, reason) at time t:
\* the list it leaves on disk and the flag it returns
update_activation(acts, email, app, mobile, status, reason, t) ==
    LET i == FirstMatch(acts, email, app, mobile)
    IN  IF i = 0
        THEN [acts |-> acts, updated |-> FALSE]
        ELSE [acts |-> [acts EXCEPT ![i].status = status,
                                    ![i].reason = reason,
                                    ![i].timestamp = t],
              updated |-> TRUE]

\* the default of update_activation's parameter reason
UpdateDefaultReason == ZeroStr
\* the defaults of write_activation's parameters status and reason
WriteDefaultStatus == "pending"
WriteDefaultReason == PendingStr

\* the block "Store message_id for potential future updates"
store_message_id(acts, email, app, mobile, mid) ==
    LET i == FirstMatch(acts, email, app, mobile)
    IN  IF i = 0 THEN acts ELSE [acts EXCEPT ![i].message_id = mid]

\* the lookup of message_id in admin_approve and process_rejection
find_message_id(acts, email, app, mobile) ==
    LET i == FirstMatch(acts, email, app, mobile)
    IN  IF i = 0 THEN 0 ELSE acts[i].message_id

\* read_emails(): the dict email -> user; a later record of the same email
\* replaces an earlier one
read_emails(us) ==
    [e \in {us[i].email : i \in 1..Len(us)} |->
        us[Max({i \in 1..Len(us) : us[i].email = e})]]

\* add_user that sets the chat_id it is given also over a chat_id already set
add_user_rebind(us, email, password, name, chat_id) ==
    IF \E i \in 1..Len(us) : Lower(us[i].email) = Lower(email)
    THEN LET fill == {i \in 1..Len(us) :
                        Lower(us[i].email) = Lower(email) /\ chat_id # NoChat}
         IN  IF fill # {}
             THEN [users |-> [us EXCEPT ![Min(fill)].chat_id = chat_id],
                   success |-> TRUE, message |-> "User chat_id updated"]
             ELSE [users |-> us,
                   success |-> FALSE, message |-> "User already exists"]
    ELSE [users |-> Append(us, [email |-> Lower(email), password |-> password,
                                name |-> name, chat_id |-> chat_id]),
          success |-> TRUE, message |-> "User added successfully"]

\* add_user that, when it fills a missing chat_id, also stores the password
\* and the name it is given
add_user_overwrite(us, email, password, name, chat_id) ==
    IF \E i \in 1..Len(us) : Lower(us[i].email) = Lower(email)
    THEN LET fill == {i \in 1..Len(us) :
                        /\ Lower(us[i].email) = Lower(email)
                        /\ us[i].chat_id = NoChat
                        /\ chat_id # NoChat}
         IN  IF fill # {}
             THEN [users |-> [us EXCEPT ![Min(fill)].chat_id = chat_id,
                                        ![Min(fill)].password = password,
                                        ![Min(fill)].name = name],
                   success |-> TRUE, message |-> "User chat_id updated"]
             ELSE [users |-> us,
                   success |-> FALSE, message |-> "User already exists"]
    ELSE [users |-> Append(us, [email |-> Lower(email), password |-> password,
                                name |-> name, chat_id |-> chat_id]),
          success |-> TRUE, message |-> "User added successfully"]

\* add_user that looks for the email as it is written
add_user_case_sensitive(us, email, password, name, chat_id) ==
    IF \E i \in 1..Len(us) : us[i].email = email
    THEN LET fill == {i \in 1..Len(us) :
                        /\ us[i].email = email
                        /\ us[i].chat_id = NoChat
                        /\ chat_id # NoChat}
         IN  IF fill # {}
             THEN [users |-> [us EXCEPT ![Min(fill)].chat_id = chat_id],
                   success |-> TRUE, message |-> "User chat_id updated"]
             ELSE [users |-> us,
                   success |-> FALSE, message |-> "User already exists"]
    ELSE [users |-> Append(us, [email |-> Lower(email), password |-> password,
                                name |-> name, chat_id |-> chat_id]),
          success |-> TRUE, message |-> "User added successfully"]

\* add_user(email, password, name, chat_id): the list it leaves on disk and
\* the pair it returns
add_user(us, email, password, name, chat_id) ==
    IF \E i \in 1..Len(us) : Lower(us[i].email) = Lower(email)
    THEN LET fill == {i \in 1..Len(us) :
                        /\ Lower(us[i].email) = Lower(email)
                        /\ us[i].chat_id = NoChat
                        /\ chat_id # NoChat}
         IN  IF fill # {}
             THEN [users |-> [us EXCEPT ![Min(fill)].chat_id = chat_id],
                   success |-> TRUE, message |-> "User chat_id updated"]
             ELSE [users |-> us,
                   success |-> FALSE, message |-> "User already exists"]
    ELSE [users |-> Append(us, [email |-> Lower(email),
                                password |-> password,
                                name |-> name,
                                chat_id |-> chat_id]),
          success |-> TRUE, message |-> "User added successfully"]

----------------------------------------------------------------------------
(* Identities, configuration and the inputs the environment may send       *)

OPERATOR == "admin"             \* the chat the deployment names in ADMIN_CHAT_ID
CHANNEL == "channel"            \* the chat the deployment names in CHANNEL_ID
Identities == {"admin", "u1", "u2"}  \* chats that talk to the bot
QueryMessage == "query.message" \* the message that carries the pressed control

EmailA == <<"a", "@", "b", ".", "c", "c">>
EmailU == <<"a", "_", "b", "@", "b", ".", "c", "c">>
EmailC == <<"c", "@", "b", ".", "c", "c">>
PassA == <<"p", "a">>
PassU == <<"p", "u">>
PassC == <<"p", "c">>
NameA == <<"A", "n", "n">>
NameU == <<"U", "m", "a">>
NameC == <<"C", "y">>

Mobile1 == <<"9", "8", "7", "6", "5", "4", "3", "2", "1", "0">>
Mobile2 == <<"9", "8", "7", "6", "5", "4", "3", "2", "1", "1">>
NineDigits == <<"9", "8", "7", "6", "5", "4", "3", "2", "1">>

\* users.json as earlier /adduser messages left it
InitUsers ==
    add_user(add_user(<<>>, EmailA, PassA, NameA, NoChat).users,
             EmailU, PassU, NameU, NoChat).users

\* the callback data process_activation_proof and admin_reject put on controls
ApproveData(email, app, mobile) ==
    ApproveWord \o Underscore \o email \o Underscore \o app \o Underscore \o mobile
RejectData(email, app, mobile) ==
    RejectWord \o Underscore \o email \o Underscore \o app \o Underscore \o mobile
ReasonData(reason_id, email, app, mobile) ==
    ReasonWord \o Underscore \o reason_id \o Underscore \o email \o Underscore
        \o app \o Underscore \o mobile
AppData(app) == AppWord \o Underscore \o app

\* What the environment sends.  Every handler takes its input from one of
\* these sets; the specifications below choose the identities that act.
\* Text typed at the email and password prompts
EmailTexts == {<<"A">> \o Tail(EmailA) \o <<" ">>, EmailU, <<"a", "b">>,
               <<"a", "@", "b", ".", "c">>}
PasswordTexts == {PassA, PassU, PassA \o <<" ">>, <<"P", "a">>}
\* text sent in the operator's bulk registration
IngestTexts == {EmailC \o Newline \o PassC \o Newline \o NameC,
                <<"x">> \o Newline \o PassC,
                <<"x">> \o Newline \o PassC \o Newline \o NameC}
\* app buttons pressed in the app selection
PressedApps == {Angelone, Upstox}
\* captions of proof messages
SpacedMobile1 == SubSeq(Mobile1, 1, 5) \o <<" ">> \o SubSeq(Mobile1, 6, 10)
Captions == {Mobile1, <<" ">> \o Mobile1, NineDigits, SpacedMobile1}
Media == {"photo", "video"}
\* reason buttons pressed on review surfaces
PressedReasons == {R77, RNt}
\* a reason code no control of this version carries
Rzz == <<"z", "z">>
\* every callback data a specification below sends
CallbackInputs ==
    UNION {{ApproveData(e, a, m), RejectData(e, a, m)} \cup
           {ReasonData(c, e, a, m) : c \in PressedReasons \cup {Rzz}} :
           e \in {EmailA, EmailU}, a \in PressedApps, m \in {Mobile1, Mobile2}}

EmptyData == [email |-> None, name |-> None, selected_app |-> None,
              admin_mode |-> FALSE, chat_id |-> NoChat]
Idle == [active |-> FALSE]

Msg(to, kind, ref) == [to |-> to, kind |-> kind, ref |-> ref, text |-> <<>>]
MsgText(to, kind, ref, text) == [to |-> to, kind |-> kind, ref |-> ref, text |-> text]

TypeOK ==
    /\ env \in [CHANNEL_ID : {NoChat, CHANNEL}, ADMIN_CHAT_ID : {NoChat, OPERATOR},
                APP_FILE : {APP_FILE, <<>>}]
    /\ Len(users) <= MaxUsers
    /\ Len(activations) <= MaxActs
    /\ conv \in [Identities -> {END, EMAIL, PASSWORD, MAIN_MENU, APP_SELECTION,
                                ACTIVATION_PROOF, ADD_USER}]
    /\ admin_conv \in [Identities -> {END, ADD_USER}]
    /\ now \in 1..(MaxClock + 1)
    /\ next_message_id \in 1..(MaxActs + 1)
    /\ \A tr \in surfaces : \E i \in 1..Len(activations) :
            <<activations[i].email, activations[i].app, activations[i].mobile>> = tr

Init ==
    /\ env = [CHANNEL_ID |-> CHANNEL, ADMIN_CHAT_ID |-> OPERATOR, APP_FILE |-> APP_FILE]
    /\ users = InitUsers
    /\ activations = <<>>
    /\ conv = [s \in Identities |-> END]
    /\ admin_conv = [s \in Identities |-> END]
    /\ user_data = [s \in Identities |-> EmptyData]
    /\ pending = [s \in Identities |-> Idle]
    /\ now = 1
    /\ next_message_id = 1
    /\ surfaces = {}
    /\ out = {}

\* the text handlers take text that is no command; while the bulk
\* registration conversation is active it is the first to take such text
IsCommand(text) == Len(text) > 0 /\ text[1] = "/"
Ready(s) == ~pending[s].active

----------------------------------------------------------------------------
(* Login conversation                                                      *)

\* start: entry point of conv_handler
start(s) ==
    /\ Ready(s) /\ conv[s] = END
    /\ IF user_data[s].admin_mode
       THEN /\ conv' = [conv EXCEPT ![s] = ADD_USER]
            /\ user_data' = user_data
            /\ out' = {Msg(s, "admin mode active", 0)}
       ELSE /\ conv' = [conv EXCEPT ![s] = EMAIL]
            /\ user_data' = [user_data EXCEPT ![s].chat_id = s]
            /\ out' = {Msg(s, "welcome", 0)}
    /\ UNCHANGED <<env, surfaces, users, activations, admin_conv, pending, now, next_message_id>>

email_input(s, text) ==
    /\ Ready(s) /\ conv[s] = EMAIL /\ admin_conv[s] # ADD_USER
    /\ ~IsCommand(text)
    /\ LET email == Lower(Strip(text))
       IN  IF ~EmailRegex(email)
           THEN /\ conv' = [conv EXCEPT ![s] = EMAIL]
                /\ user_data' = user_data
                /\ out' = {Msg(s, "invalid email format", 0)}
           ELSE /\ conv' = [conv EXCEPT ![s] = PASSWORD]
                /\ user_data' = [user_data EXCEPT ![s].email = email]
                /\ out' = {Msg(s, "enter password", 0)}
    /\ UNCHANGED <<env, surfaces, users, activations, admin_conv, pending, now, next_message_id>>

\* the loop in password_input that binds the chat id to the first record
\* whose email is the session's
bind_chat_id(us, email, chat) ==
    LET hits == {i \in 1..Len(us) : us[i].email = email}
    IN  IF hits = {} THEN us ELSE [us EXCEPT ![Min(hits)].chat_id = chat]

\* the test of password_input with the password compared ignoring case
credentials_match_any_case(dict, email, password) ==
    email \in DOMAIN dict /\ Lower(dict[email].password) = Lower(password)

\* the test "email in users and users[email]['password'] == password"
credentials_match(dict, email, password) ==
    email \in DOMAIN dict /\ dict[email].password = password

password_input(s, text) ==
    /\ Ready(s) /\ conv[s] = PASSWORD /\ admin_conv[s] # ADD_USER
    /\ ~IsCommand(text)
    /\ LET password == Strip(text)
           email == user_data[s].email
           dict == read_emails(users)
       IN  IF credentials_match(dict, email, password)
           THEN /\ users' = IF dict[email].chat_id = NoChat
                            THEN bind_chat_id(users, email, s)
                            ELSE users
                /\ user_data' = [user_data EXCEPT ![s].name = dict[email].name]
                /\ conv' = [conv EXCEPT ![s] = MAIN_MENU]
                /\ out' = {Msg(s, "login successful", 0), Msg(s, "main menu", 0)}
           ELSE /\ users' = users
                /\ user_data' = user_data
                /\ conv' = [conv EXCEPT ![s] = EMAIL]
                /\ out' = {Msg(s, "invalid email or password", 0)}
    /\ UNCHANGED <<env, surfaces, activations, admin_conv, pending, now, next_message_id>>

----------------------------------------------------------------------------
(* Main menu and app selection                                             *)

\* activation_status: pattern '^status$' in MAIN_MENU
activation_status(s) ==
    /\ Ready(s) /\ conv[s] = MAIN_MENU
    /\ out' = IF user_data[s].email = None
              THEN {}       \* KeyError: logged, nothing is sent
              ELSE LET acts == read_activations(activations, user_data[s].email,
                                                None, None)
                   IN  {MsgText(s, "status view", Len(acts),
                                Join([i \in 1..Len(acts) |->
                                        RejectionReasonsGet(acts[i].reason,
                                                            acts[i].reason)],
                                     Newline))}
    /\ conv' = [conv EXCEPT ![s] = MAIN_MENU]
    /\ UNCHANGED <<env, surfaces, users, activations, admin_conv, user_data, pending, now,
                   next_message_id>>

\* a same-app button that prompts for proof with no app in the session
send_activation_proof_no_key_check(s, data) ==
    /\ Ready(s) /\ conv[s] = MAIN_MENU
    /\ data \in {"proof", "same_app"}
    /\ IF data = "same_app"
       THEN IF user_data[s].selected_app = None
            THEN /\ conv' = [conv EXCEPT ![s] = ACTIVATION_PROOF]
                 /\ out' = {Msg(s, "send proof", 0)}
            ELSE /\ conv' = [conv EXCEPT ![s] = ACTIVATION_PROOF]
                 /\ out' = {Msg(s, "send proof", 0)}
       ELSE IF read_apps = <<>>
            THEN /\ conv' = [conv EXCEPT ![s] = MAIN_MENU]
                 /\ out' = {Msg(s, "no apps available", 0)}
            ELSE /\ conv' = [conv EXCEPT ![s] = APP_SELECTION]
                 /\ out' = {Msg(s, "select application", 0)}
    /\ UNCHANGED <<env, surfaces, users, activations, admin_conv, user_data, pending, now,
                   next_message_id>>

\* send_activation_proof: patterns '^proof$' and '^same_app$' in MAIN_MENU
send_activation_proof(s, data) ==
    /\ Ready(s) /\ conv[s] = MAIN_MENU
    /\ data \in {"proof", "same_app"}
    /\ IF data = "same_app"
       THEN IF user_data[s].selected_app = None
            THEN /\ conv' = [conv EXCEPT ![s] = MAIN_MENU]   \* KeyError
                 /\ out' = {}
            ELSE /\ conv' = [conv EXCEPT ![s] = ACTIVATION_PROOF]
                 /\ out' = {Msg(s, "send proof", 0)}
       ELSE IF read_apps = <<>>
            THEN /\ conv' = [conv EXCEPT ![s] = MAIN_MENU]
                 /\ out' = {Msg(s, "no apps available", 0)}
            ELSE /\ conv' = [conv EXCEPT ![s] = APP_SELECTION]
                 /\ out' = {Msg(s, "select application", 0)}
    /\ UNCHANGED <<env, surfaces, users, activations, admin_conv, user_data, pending, now,
                   next_message_id>>

\* show_guide and show_rules: patterns '^guide$' and '^rules$' in MAIN_MENU
show_guide_rules(s, data) ==
    /\ Ready(s) /\ conv[s] = MAIN_MENU
    /\ data \in {"guide", "rules"}
    /\ conv' = [conv EXCEPT ![s] = MAIN_MENU]
    /\ out' = {Msg(s, data, 0)}
    /\ UNCHANGED <<env, surfaces, users, activations, admin_conv, user_data, pending, now,
                   next_message_id>>

\* back_to_menu: pattern '^back$' in MAIN_MENU, APP_SELECTION, ACTIVATION_PROOF
back_to_menu(s) ==
    /\ Ready(s) /\ conv[s] \in {MAIN_MENU, APP_SELECTION, ACTIVATION_PROOF}
    /\ conv' = [conv EXCEPT ![s] = MAIN_MENU]
    /\ out' = {Msg(s, "main menu", 0)}
    /\ UNCHANGED <<env, surfaces, users, activations, admin_conv, user_data, pending, now,
                   next_message_id>>

\* app_selected: pattern '^app_' in APP_SELECTION, data of a catalog button
app_selected(s, button) ==
    /\ Ready(s) /\ conv[s] = APP_SELECTION
    /\ \E i \in 1..Len(read_apps) : read_apps[i] = button
    /\ LET data == AppData(button)
           app == Lower(RemoveAll(data, AppWord \o Underscore))
       IN  /\ user_data' = [user_data EXCEPT ![s].selected_app = app]
           /\ conv' = [conv EXCEPT ![s] = ACTIVATION_PROOF]
           /\ out' = {Msg(s, "send proof", 0)}
    /\ UNCHANGED <<env, surfaces, users, activations, admin_conv, pending, now, next_message_id>>

\* cancel: fallback of both conversation handlers; admin_conv_handler is
\* registered first and takes the command whenever its conversation is active
cancel(s) ==
    /\ Ready(s)
    /\ admin_conv[s] = ADD_USER \/ conv[s] # END
    /\ user_data' = [user_data EXCEPT ![s] = EmptyData]
    /\ IF admin_conv[s] = ADD_USER
       THEN admin_conv' = [admin_conv EXCEPT ![s] = END] /\ conv' = conv
       ELSE conv' = [conv EXCEPT ![s] = END] /\ admin_conv' = admin_conv
    /\ out' = {Msg(s, "operation cancelled", 0)}
    /\ UNCHANGED <<env, surfaces, users, activations, pending, now, next_message_id>>

----------------------------------------------------------------------------
(* Operator bulk registration                                              *)

\* add_user_command without the comparison with ADMIN_CHAT_ID
add_user_command_unchecked(s) ==
    /\ Ready(s) /\ admin_conv[s] = END
    /\ admin_conv' = [admin_conv EXCEPT ![s] = ADD_USER]
    /\ user_data' = [user_data EXCEPT ![s].admin_mode = TRUE]
    /\ out' = {Msg(s, "admin user addition mode", 0)}
    /\ UNCHANGED <<env, surfaces, users, activations, conv, pending, now, next_message_id>>

\* add_user_command: entry point of admin_conv_handler
add_user_command(s) ==
    /\ Ready(s) /\ admin_conv[s] = END
    /\ IF s # env.ADMIN_CHAT_ID
       THEN /\ admin_conv' = admin_conv
            /\ user_data' = user_data
            /\ out' = {Msg(s, "admin only", 0)}
       ELSE /\ admin_conv' = [admin_conv EXCEPT ![s] = ADD_USER]
            /\ user_data' = [user_data EXCEPT ![s].admin_mode = TRUE]
            /\ out' = {Msg(s, "admin user addition mode", 0)}
    /\ UNCHANGED <<env, surfaces, users, activations, conv, pending, now, next_message_id>>

\* the lines of one entry, stripped, blank ones dropped
EntryParts(entry) ==
    LET lines == Split(entry, Newline)
        kept == SelectSeq(lines, LAMBDA l : Strip(l) # <<>>)
    IN  [i \in 1..Len(kept) |-> Strip(kept[i])]

\* the loop of add_user_handler over the entries: the user list it leaves
RECURSIVE IngestEntries(_, _)
IngestEntries(us, entries) ==
    IF entries = <<>> THEN us
    ELSE LET parts == EntryParts(Head(entries))
         IN  IF Len(parts) < 3
             THEN IngestEntries(us, Tail(entries))
             ELSE IngestEntries(
                      add_user(us, parts[1], parts[2],
                               Join(SubSeq(parts, 3, Len(parts)), <<" ">>),
                               NoChat).users,
                      Tail(entries))

\* add_user_handler: text in state ADD_USER of either conversation handler
add_user_handler(s, message) ==
    /\ Ready(s)
    /\ admin_conv[s] = ADD_USER \/ conv[s] = ADD_USER
    /\ ~IsCommand(message)
    /\ LET text == Strip(message)
           user_entries == SelectSeq(Split(text, Newline \o Newline),
                                     LAMBDA e : Strip(e) # <<>>)
       IN  IF text = <<>>
           THEN /\ users' = users
                /\ out' = {Msg(s, "provide valid user details", 0)}
           ELSE /\ users' = IngestEntries(users, user_entries)
                /\ Len(users') <= MaxUsers
                /\ out' = {Msg(s, "ingest results", Len(users') - Len(users))}
    /\ UNCHANGED <<env, surfaces, activations, conv, admin_conv, user_data, pending, now,
                   next_message_id>>

----------------------------------------------------------------------------
(* Proof submission                                                        *)

\* the media check of process_activation_proof: the media_type it accepts,
\* "" when it re-prompts
\* a media check that takes a photo for every app
accepted_media_any_app(app, media) ==
    IF media = "photo" THEN "photo"
    ELSE IF media = "video" THEN "video" ELSE ""
accepted_media(app, media) ==
    IF app \in SCREENSHOT_APPS
    THEN IF media = "photo" THEN "photo"
         ELSE IF media = "video" THEN "video" ELSE ""
    ELSE IF media # "video" THEN "" ELSE "video"

\* process_activation_proof that asks the ledger before it looks at the message
process_activation_proof_duplicate_first(s, media, caption) ==
    /\ Ready(s) /\ conv[s] = ACTIVATION_PROOF
    /\ media \in Media /\ Truthy(caption)    \* (VIDEO | PHOTO) & CAPTION
    /\ LET app == user_data[s].selected_app
           mobile == Strip(caption)
           email == user_data[s].email
       IN  IF Falsy(app)
           THEN /\ out' = {Msg(s, "no app selected", 0)}
                /\ conv' = [conv EXCEPT ![s] = MAIN_MENU]
                /\ UNCHANGED <<activations, pending, now>>
           ELSE IF is_duplicate(activations, app, mobile)
           THEN /\ out' = {Msg(s, "duplicate activation", 0)}
                /\ conv' = [conv EXCEPT ![s] = MAIN_MENU]
                /\ UNCHANGED <<activations, pending, now>>
           ELSE IF accepted_media(app, media) = ""
           THEN /\ out' = {Msg(s, "wrong media", 0)}
                /\ conv' = [conv EXCEPT ![s] = ACTIVATION_PROOF]
                /\ UNCHANGED <<activations, pending, now>>
           ELSE IF Falsy(caption)
           THEN /\ out' = {Msg(s, "include mobile number", 0)}
                /\ conv' = [conv EXCEPT ![s] = ACTIVATION_PROOF]
                /\ UNCHANGED <<activations, pending, now>>
           ELSE IF ~MobileRegex(mobile)
           THEN /\ out' = {Msg(s, "invalid mobile number", 0)}
                /\ conv' = [conv EXCEPT ![s] = ACTIVATION_PROOF]
                /\ UNCHANGED <<activations, pending, now>>
           ELSE IF Falsy(email)
           THEN /\ out' = {Msg(s, "session expired", 0)}
                /\ conv' = [conv EXCEPT ![s] = END]
                /\ UNCHANGED <<activations, pending, now>>
           ELSE /\ Len(activations) < MaxActs /\ now <= MaxClock
                /\ activations' = write_activation(activations, email, app, mobile,
                                      WriteDefaultStatus, WriteDefaultReason, now)
                /\ now' = now + 1
                /\ IF env.CHANNEL_ID # NoChat
                   THEN /\ pending' = [pending EXCEPT ![s] =
                                [active |-> TRUE, email |-> email, app |-> app,
                                 mobile |-> mobile,
                                 media_type |-> accepted_media(app, media)]]
                        /\ out' = {}
                        /\ conv' = conv
                   ELSE /\ pending' = pending
                        /\ out' = {Msg(s, "activation submitted", 0)}
                        /\ conv' = [conv EXCEPT ![s] = MAIN_MENU]
    /\ UNCHANGED <<env, surfaces, users, admin_conv, user_data, next_message_id>>

\* process_activation_proof up to its first suspension: the validation, the
\* duplicate check and write_activation run without yielding; with a channel
\* configured the handler then waits for the channel send
process_activation_proof(s, media, caption) ==
    /\ Ready(s) /\ conv[s] = ACTIVATION_PROOF
    /\ media \in Media /\ Truthy(caption)    \* (VIDEO | PHOTO) & CAPTION
    /\ LET app == user_data[s].selected_app
           mobile == Strip(caption)
           email == user_data[s].email
       IN  IF Falsy(app)
           THEN /\ out' = {Msg(s, "no app selected", 0)}
                /\ conv' = [conv EXCEPT ![s] = MAIN_MENU]
                /\ UNCHANGED <<activations, pending, now>>
           ELSE IF accepted_media(app, media) = ""
           THEN /\ out' = {Msg(s, "wrong media", 0)}
                /\ conv' = [conv EXCEPT ![s] = ACTIVATION_PROOF]
                /\ UNCHANGED <<activations, pending, now>>
           ELSE IF Falsy(caption)
           THEN /\ out' = {Msg(s, "include mobile number", 0)}
                /\ conv' = [conv EXCEPT ![s] = ACTIVATION_PROOF]
                /\ UNCHANGED <<activations, pending, now>>
           ELSE IF ~MobileRegex(mobile)
           THEN /\ out' = {Msg(s, "invalid mobile number", 0)}
                /\ conv' = [conv EXCEPT ![s] = ACTIVATION_PROOF]
                /\ UNCHANGED <<activations, pending, now>>
           ELSE IF is_duplicate(activations, app, mobile)
           THEN /\ out' = {Msg(s, "duplicate activation", 0)}
                /\ conv' = [conv EXCEPT ![s] = MAIN_MENU]
                /\ UNCHANGED <<activations, pending, now>>
           ELSE IF Falsy(email)
           THEN /\ out' = {Msg(s, "session expired", 0)}
                /\ conv' = [conv EXCEPT ![s] = END]
                /\ UNCHANGED <<activations, pending, now>>
           ELSE /\ Len(activations) < MaxActs /\ now <= MaxClock
                /\ activations' = write_activation(activations, email, app, mobile,
                                      WriteDefaultStatus, WriteDefaultReason, now)
                /\ now' = now + 1
                /\ IF env.CHANNEL_ID # NoChat
                   THEN /\ pending' = [pending EXCEPT ![s] =
                                [active |-> TRUE, email |-> email, app |-> app,
                                 mobile |-> mobile,
                                 media_type |-> accepted_media(app, media)]]
                        /\ out' = {}
                        /\ conv' = conv
                   ELSE /\ pending' = pending
                        /\ out' = {Msg(s, "activation submitted", 0)}
                        /\ conv' = [conv EXCEPT ![s] = MAIN_MENU]
    /\ UNCHANGED <<env, surfaces, users, admin_conv, user_data, next_message_id>>

\* a delivery step that keeps a failed channel send to the log
proof_delivery_no_alert(s, sent, alerted) ==
    /\ pending[s].active
    /\ LET p == pending[s]
       IN  IF sent
           THEN /\ alerted
                /\ activations' = store_message_id(activations, p.email, p.app,
                                                   p.mobile, next_message_id)
                /\ next_message_id' = next_message_id + 1
                /\ surfaces' = surfaces \cup {<<p.email, p.app, p.mobile>>}
                /\ out' = {MsgText(env.CHANNEL_ID, "review surface", next_message_id,
                                   ApproveData(p.email, p.app, p.mobile)),
                           Msg(s, "activation submitted", 0)}
           ELSE /\ UNCHANGED <<activations, next_message_id, surfaces>>
                /\ IF env.ADMIN_CHAT_ID = NoChat
                   THEN alerted /\ out' = {Msg(s, "activation submitted", 0)}
                   ELSE IF alerted
                   THEN out' = {Msg(s, "activation submitted", 0)}
                   ELSE out' = {Msg(s, "an error occurred", 0)}
    /\ pending' = [pending EXCEPT ![s] = Idle]
    /\ conv' = [conv EXCEPT ![s] = MAIN_MENU]
    /\ UNCHANGED <<env, users, admin_conv, user_data, now>>

\* process_activation_proof from the return of send_photo / send_video (sent:
\* whether it delivered; alerted: whether the alert to ADMIN_CHAT_ID did)
proof_delivery(s, sent, alerted) ==
    /\ pending[s].active
    /\ LET p == pending[s]
       IN  IF sent
           THEN /\ alerted
                /\ activations' = store_message_id(activations, p.email, p.app,
                                                   p.mobile, next_message_id)
                /\ next_message_id' = next_message_id + 1
                /\ surfaces' = surfaces \cup {<<p.email, p.app, p.mobile>>}
                /\ out' = {MsgText(env.CHANNEL_ID, "review surface", next_message_id,
                                   ApproveData(p.email, p.app, p.mobile)),
                           Msg(s, "activation submitted", 0)}
           ELSE /\ UNCHANGED <<activations, next_message_id, surfaces>>
                /\ IF env.ADMIN_CHAT_ID = NoChat
                   THEN alerted /\ out' = {Msg(s, "activation submitted", 0)}
                   ELSE IF alerted
                   THEN out' = {Msg(env.ADMIN_CHAT_ID, "failed to send to channel", 0),
                                Msg(s, "activation submitted", 0)}
                   ELSE out' = {Msg(s, "an error occurred", 0)}
    /\ pending' = [pending EXCEPT ![s] = Idle]
    /\ conv' = [conv EXCEPT ![s] = MAIN_MENU]
    /\ UNCHANGED <<env, users, admin_conv, user_data, now>>

----------------------------------------------------------------------------
(* Decision callbacks (registered before both conversation handlers, for   *)
(* any chat that sends the callback data)                                  *)

\* query.data.split('_'), computed once for the callback data that is sent
SplitData == [d \in CallbackInputs |-> Split(d, Underscore)]

\* the (email, app, mobile) a decision callback hands to update_activation,
\* <<>> when the unpacking of its parts raises
decision_target(data) ==
    LET parts == SplitData[data]
    IN  IF HasAt(data, ApproveWord \o Underscore, 1)
        THEN IF Len(parts) = 4 THEN <<parts[2], parts[3], parts[4]>> ELSE <<>>
        ELSE IF HasAt(data, ReasonWord \o Underscore, 1) /\ Len(parts) >= 5
        THEN <<parts[3], parts[4], parts[5]>>
        ELSE <<>>

\* the channel caption edit of admin_approve and process_rejection: the
\* message it edits, none when there is no channel, no message_id or the
\* edit fails (the failure is logged)
caption_edit(acts, email, app, mobile, kind, text, caption_ok) ==
    LET message_id == find_message_id(acts, email, app, mobile)
    IN  IF env.CHANNEL_ID # NoChat /\ message_id # 0 /\ caption_ok
        THEN {MsgText(env.CHANNEL_ID, kind, message_id, text)}
        ELSE {}

\* admin_approve: pattern '^approve_'
admin_approve(actor, data, caption_ok, text_ok) ==
    /\ Ready(actor)
    /\ data \in CallbackInputs /\ HasAt(data, ApproveWord \o Underscore, 1)
    /\ LET parts == SplitData[data]
       IN  IF Len(parts) # 4
           THEN /\ out' = {Msg(actor, "failed to process approval", 0)}  \* ValueError
                /\ UNCHANGED <<activations, now>>
           ELSE LET email == parts[2]
                    app == parts[3]
                    mobile == parts[4]
                    r == update_activation(activations, email, app, mobile, "approved",
                                           UpdateDefaultReason, now)
                IN  /\ r.updated => now <= MaxClock
                    /\ activations' = r.acts
                    /\ now' = IF r.updated THEN now + 1 ELSE now
                    /\ out' = caption_edit(r.acts, email, app, mobile,
                                           "caption: approved", <<>>, caption_ok)
                              \cup (IF text_ok
                                    THEN {Msg(QueryMessage, "approved activation", 0)}
                                    ELSE {Msg(actor, "failed to process approval", 0)})
    /\ UNCHANGED <<env, surfaces, users, conv, admin_conv, user_data, pending, next_message_id>>

\* a Reject control that writes the rejection at once
admin_reject_immediate(actor, data, text_ok) ==
    /\ Ready(actor)
    /\ data \in CallbackInputs /\ HasAt(data, RejectWord \o Underscore, 1)
    /\ LET parts == SplitData[data]
       IN  IF Len(parts) # 4 \/ ~text_ok
           THEN /\ out' = {Msg(actor, "failed to process rejection", 0)}
                /\ UNCHANGED <<activations, now>>
           ELSE LET r == update_activation(activations, parts[2], parts[3], parts[4],
                                           "rejected", UpdateDefaultReason, now)
                IN  /\ r.updated => now <= MaxClock
                    /\ activations' = r.acts
                    /\ now' = IF r.updated THEN now + 1 ELSE now
                    /\ out' = {MsgText(QueryMessage, "select rejection reason", 0,
                                       parts[3])}
    /\ UNCHANGED <<env, surfaces, users, conv, admin_conv, user_data, pending,
                   next_message_id>>

\* admin_reject: pattern '^reject_'
admin_reject(actor, data, text_ok) ==
    /\ Ready(actor)
    /\ data \in CallbackInputs /\ HasAt(data, RejectWord \o Underscore, 1)
    /\ LET parts == SplitData[data]
       IN  IF Len(parts) # 4 \/ ~text_ok
           THEN out' = {Msg(actor, "failed to process rejection", 0)}
           ELSE out' = {MsgText(QueryMessage, "select rejection reason", 0, parts[3])}
    /\ UNCHANGED <<env, surfaces, users, activations, conv, admin_conv, user_data, pending, now,
                   next_message_id>>

\* the status derived from the reason code alone
rejection_status_any_app(app, reason_id) ==
    IF reason_id = RNt THEN "approved" ELSE "rejected"

\* the status process_rejection derives from the app and the reason code
rejection_status(app, reason_id) ==
    IF app = Angelone /\ reason_id = RNt THEN "approved" ELSE "rejected"

\* process_rejection: pattern '^reason_'
process_rejection(actor, data, caption_ok, text_ok) ==
    /\ Ready(actor)
    /\ data \in CallbackInputs /\ HasAt(data, ReasonWord \o Underscore, 1)
    /\ LET parts == SplitData[data]
       IN  IF Len(parts) < 5
           THEN /\ out' = {Msg(actor, "failed to process rejection reason", 0)}
                /\ UNCHANGED <<activations, now>>                     \* IndexError
           ELSE LET reason_id == parts[2]
                    email == parts[3]
                    app == parts[4]
                    mobile == parts[5]
                    reason_text == RejectionReasonsGet(reason_id, UnknownReason)
                    status == rejection_status(app, reason_id)
                    r == update_activation(activations, email, app, mobile, status,
                                           reason_id, now)
                    shown == IF status = "rejected" THEN "rejected activation"
                             ELSE "approved with note activation"
                IN  /\ r.updated => now <= MaxClock
                    /\ activations' = r.acts
                    /\ now' = IF r.updated THEN now + 1 ELSE now
                    /\ out' = caption_edit(r.acts, email, app, mobile,
                                           "caption: " \o status, reason_text, caption_ok)
                              \cup (IF text_ok
                                    THEN {MsgText(QueryMessage, shown, 0, reason_text)}
                                    ELSE {Msg(actor, "failed to process rejection reason", 0)})
    /\ UNCHANGED <<env, surfaces, users, conv, admin_conv, user_data, pending, next_message_id>>

----------------------------------------------------------------------------
(* The bot                                                                 *)

\* Specification Spec: submission and review.  One user's session submits
\* proof and the operator presses controls of the review surfaces the channel
\* received; a control stays pressable after a decision (the caption edit that
\* removes it may fail, and a press may already be on its way).
Users1 == {"u1"}
Operators == {OPERATOR}

Next ==
    \/ \E s \in Users1 : start(s)
    \/ \E s \in Users1, text \in EmailTexts : email_input(s, text)
    \/ \E s \in Users1, text \in PasswordTexts : password_input(s, text)
    \/ \E s \in Users1, data \in {"proof", "same_app"} : send_activation_proof(s, data)
    \/ \E s \in Users1 : back_to_menu(s)
    \/ \E s \in Users1, app \in PressedApps : app_selected(s, app)
    \/ \E s \in Users1, media \in Media, caption \in Captions :
            process_activation_proof(s, media, caption)
    \/ \E s \in Users1, sent \in BOOLEAN, alerted \in BOOLEAN :
            proof_delivery(s, sent, alerted)
    \/ \E actor \in Operators, tr \in surfaces, c \in BOOLEAN, t \in BOOLEAN :
            admin_approve(actor, ApproveData(tr[1], tr[2], tr[3]), c, t)
    \/ \E actor \in Operators, tr \in surfaces, t \in BOOLEAN :
            admin_reject(actor, RejectData(tr[1], tr[2], tr[3]), t)
    \/ \E actor \in Operators, tr \in surfaces, code \in PressedReasons,
          c \in BOOLEAN, t \in BOOLEAN :
            process_rejection(actor, ReasonData(code, tr[1], tr[2], tr[3]), c, t)

Spec == Init /\ [][Next]_vars

\* Specification SpecRace: two chats, each logged in, submit proof; their
\* handlers interleave at the suspension of process_activation_proof.  No
\* decision is taken.
Users2 == {"u1", "u2"}
RaceEmailTexts == {EmailA, EmailU}
RaceCaptions == {Mobile1, <<" ">> \o Mobile1}

NextRace ==
    \/ \E s \in Users2 : start(s)
    \/ \E s \in Users2, text \in RaceEmailTexts : email_input(s, text)
    \/ \E s \in Users2, text \in PasswordTexts : password_input(s, text)
    \/ \E s \in Users2 : send_activation_proof(s, "proof")
    \/ \E s \in Users2, app \in PressedApps : app_selected(s, app)
    \/ \E s \in Users2, caption \in RaceCaptions :
            process_activation_proof(s, "video", caption)
    \/ \E s \in Users2, sent \in BOOLEAN : proof_delivery(s, sent, TRUE)

SpecRace == Init /\ [][NextRace]_vars

\* Specification SpecUsers: the user store.  Two chats log in, cancel and log
\* in again, while add_user is called with and without a chat id.
RegisterEmails == {EmailA, <<"A">> \o Tail(EmailA), EmailC, <<"x">>}
RegisterChats == {NoChat, "u2"}

\* a call add_user(email, password, name, chat_id); out holds what it returns
register_call(email, password, name, chat_id) ==
    LET r == add_user(users, email, password, name, chat_id)
    IN  /\ Len(r.users) <= MaxUsers
        /\ users' = r.users
        /\ out' = {MsgText("caller", r.message, 0, email)}
        /\ UNCHANGED <<env, surfaces, activations, conv, admin_conv, user_data,
                       pending, now, next_message_id>>

NextUsers ==
    \/ \E s \in Users2 : start(s)
    \/ \E s \in Users2, text \in RaceEmailTexts : email_input(s, text)
    \/ \E s \in Users2, text \in PasswordTexts : password_input(s, text)
    \/ \E s \in Users2 : cancel(s)
    \/ \E email \in RegisterEmails, chat_id \in RegisterChats :
            register_call(email, PassC, NameC, chat_id)

SpecUsers == Init /\ [][NextUsers]_vars

\* Specification SpecReason: one submission is reviewed with reason codes,
\* among them a code the catalog does not know, and the user reads the status.
ReviewReasons == {R77, Rzz}

NextReason ==
    \/ start("u1")
    \/ email_input("u1", EmailA)
    \/ \E text \in PasswordTexts : password_input("u1", text)
    \/ send_activation_proof("u1", "proof")
    \/ \E app \in PressedApps : app_selected("u1", app)
    \/ process_activation_proof("u1", "video", Mobile1)
    \/ \E sent \in BOOLEAN : proof_delivery("u1", sent, TRUE)
    \/ activation_status("u1")
    \/ \E tr \in surfaces, code \in ReviewReasons, c \in BOOLEAN, t \in BOOLEAN :
            process_rejection(OPERATOR, ReasonData(code, tr[1], tr[2], tr[3]), c, t)

SpecReason == Init /\ [][NextReason]_vars

\* Specification SpecOperator: the operator's own chat, which runs the login
\* conversation and the bulk registration conversation side by side.
NextOperator ==
    \/ start(OPERATOR)
    \/ \E text \in EmailTexts : email_input(OPERATOR, text)
    \/ \E text \in PasswordTexts : password_input(OPERATOR, text)
    \/ \E data \in {"proof", "same_app"} : send_activation_proof(OPERATOR, data)
    \/ activation_status(OPERATOR)
    \/ \E data \in {"guide", "rules"} : show_guide_rules(OPERATOR, data)
    \/ back_to_menu(OPERATOR)
    \/ \E app \in PressedApps : app_selected(OPERATOR, app)
    \/ cancel(OPERATOR)
    \/ add_user_command(OPERATOR)
    \/ \E text \in IngestTexts : add_user_handler(OPERATOR, text)
    \/ \E media \in Media, caption \in Captions :
            process_activation_proof(OPERATOR, media, caption)
    \/ \E sent \in BOOLEAN, alerted \in BOOLEAN : proof_delivery(OPERATOR, sent, alerted)

SpecOperator == Init /\ [][NextOperator]_vars

\* Specification SpecIngest: the operator and another chat send /adduser,
\* /start, /cancel and bulk registration text, with ADMIN_CHAT_ID set or unset.
IngestChats == {OPERATOR, "u1"}

InitIngest ==
    /\ \E admin_id \in {NoChat, OPERATOR} :
            env = [CHANNEL_ID |-> CHANNEL, ADMIN_CHAT_ID |-> admin_id,
                   APP_FILE |-> APP_FILE]
    /\ users = InitUsers
    /\ activations = <<>>
    /\ conv = [s \in Identities |-> END]
    /\ admin_conv = [s \in Identities |-> END]
    /\ user_data = [s \in Identities |-> EmptyData]
    /\ pending = [s \in Identities |-> Idle]
    /\ now = 1
    /\ next_message_id = 1
    /\ surfaces = {}
    /\ out = {}

NextIngest ==
    \/ \E s \in IngestChats : start(s)
    \/ \E s \in IngestChats, text \in RaceEmailTexts : email_input(s, text)
    \/ \E s \in IngestChats, text \in {PassA, PassU} : password_input(s, text)
    \/ \E s \in IngestChats : cancel(s)
    \/ \E s \in IngestChats : add_user_command(s)
    \/ \E s \in IngestChats, text \in IngestTexts : add_user_handler(s, text)

SpecIngest == InitIngest /\ [][NextIngest]_vars

\* Specification SpecCatalog: one user walks the menu and submits, with the
\* default catalog in Data/ec_app.txt or with a file that lists no app.
InitCatalog ==
    /\ \E app_file \in {APP_FILE, <<>>} :
            env = [CHANNEL_ID |-> CHANNEL, ADMIN_CHAT_ID |-> OPERATOR,
                   APP_FILE |-> app_file]
    /\ users = InitUsers
    /\ activations = <<>>
    /\ conv = [s \in Identities |-> END]
    /\ admin_conv = [s \in Identities |-> END]
    /\ user_data = [s \in Identities |-> EmptyData]
    /\ pending = [s \in Identities |-> Idle]
    /\ now = 1
    /\ next_message_id = 1
    /\ surfaces = {}
    /\ out = {}

NextCatalog ==
    \/ start("u1")
    \/ \E text \in RaceEmailTexts : email_input("u1", text)
    \/ \E text \in {PassA, PassU} : password_input("u1", text)
    \/ \E data \in {"proof", "same_app"} : send_activation_proof("u1", data)
    \/ activation_status("u1")
    \/ \E data \in {"guide", "rules"} : show_guide_rules("u1", data)
    \/ back_to_menu("u1")
    \/ \E app \in PressedApps : app_selected("u1", app)
    \/ \E media \in Media, caption \in Captions :
            process_activation_proof("u1", media, caption)
    \/ \E sent \in BOOLEAN : proof_delivery("u1", sent, TRUE)
    \/ cancel("u1")

SpecCatalog == InitCatalog /\ [][NextCatalog]_vars

\* Specification SpecPress: one user submits, and a channel member who is not
\* the operator presses the controls of the review surfaces.
Pressers == {"u2"}

NextPress ==
    \/ start("u1")
    \/ email_input("u1", EmailA)
    \/ \E text \in {PassA, PassU} : password_input("u1", text)
    \/ \E data \in {"proof", "same_app"} : send_activation_proof("u1", data)
    \/ \E app \in PressedApps : app_selected("u1", app)
    \/ \E caption \in RaceCaptions : process_activation_proof("u1", "video", caption)
    \/ \E sent \in BOOLEAN : proof_delivery("u1", sent, TRUE)
    \/ \E actor \in Pressers, tr \in surfaces, c \in BOOLEAN, t \in BOOLEAN :
            admin_approve(actor, ApproveData(tr[1], tr[2], tr[3]), c, t)
    \/ \E actor \in Pressers, tr \in surfaces, t \in BOOLEAN :
            admin_reject(actor, RejectData(tr[1], tr[2], tr[3]), t)
    \/ \E actor \in Pressers, tr \in surfaces, code \in PressedReasons,
          c \in BOOLEAN, t \in BOOLEAN :
            process_rejection(actor, ReasonData(code, tr[1], tr[2], tr[3]), c, t)

SpecPress == Init /\ [][NextPress]_vars

----------------------------------------------------------------------------
(* Vocabulary of the properties                                            *)

ActiveStatuses == {"pending", "approved"}

\* the records of the pair (app, mobile) that are pending or approved
ActiveRecords(acts, app, mobile) ==
    {i \in 1..Len(acts) : /\ acts[i].app = app
                          /\ acts[i].mobile = mobile
                          /\ acts[i].status \in ActiveStatuses}

\* the records a decision that names the triple tr addresses
Matches(acts, tr) ==
    IF tr = <<>> THEN {}
    ELSE {i \in 1..Len(acts) :
             <<acts[i].email, acts[i].app, acts[i].mobile>> = tr}

\* proof the selected app accepts, with a caption of exactly ten digits
ValidProof(app, media, caption) ==
    /\ Truthy(app)
    /\ media = "video" \/ (media = "photo" /\ app \in SCREENSHOT_APPS)
    /\ Len(Strip(caption)) = 10
    /\ \A i \in 1..Len(Strip(caption)) : Strip(caption)[i] \in Digits

\* the chats bound to the user who owns email
SubmitterChats(email) ==
    {users[i].chat_id : i \in {k \in 1..Len(users) : users[k].email = email}}
        \ {NoChat}

ConfirmationKinds == {"approved activation", "rejected activation",
                      "approved with note activation"}
FailureKinds == {"failed to process approval", "failed to process rejection",
                 "failed to process rejection reason"}

\* the callback data of the decision controls of the surfaces in the channel
DecisionData ==
    UNION {{ApproveData(tr[1], tr[2], tr[3])} \cup
           {ReasonData(code, tr[1], tr[2], tr[3]) : code \in PressedReasons} :
           tr \in surfaces}

\* this step is the approve callback carrying data
ApproveStep(data) ==
    /\ HasAt(data, ApproveWord \o Underscore, 1)
    /\ \E actor \in Operators, c \in BOOLEAN, t \in BOOLEAN :
            admin_approve(actor, data, c, t)

\* this step is the reject-with-reason callback carrying data
ReasonStep(data) ==
    /\ HasAt(data, ReasonWord \o Underscore, 1)
    /\ \E actor \in Operators, c \in BOOLEAN, t \in BOOLEAN :
            process_rejection(actor, data, c, t)

----------------------------------------------------------------------------
(* C1  In every reachable state, for every (app, mobile) at most one        *)
(*     Activation is pending or approved.                                   *)
C1_AtMostOneActivePerPair ==
    \A a \in PressedApps, m \in {Mobile1, Mobile2} :
        Cardinality(ActiveRecords(activations, a, m)) <= 1

(* C2  Two chats submit valid proof for the same (app, mobile) with no      *)
(*     decision in between: whatever the interleaving of their handlers,    *)
(*     the submission that finds no record of the pair appends one pending  *)
(*     record, the one that finds a record of the pair gets the duplicate   *)
(*     error and appends nothing, and the pair never has two records.       *)
C2_OneCreatesOtherIsDuplicate ==
    [][\A s \in Users2, caption \in RaceCaptions :
          (/\ process_activation_proof(s, "video", caption)
           /\ ValidProof(user_data[s].selected_app, "video", caption)
           /\ Truthy(user_data[s].email))
          => LET a == user_data[s].selected_app
                 m == Strip(caption)
                 before == {i \in 1..Len(activations) :
                               activations[i].app = a /\ activations[i].mobile = m}
                 after == {i \in 1..Len(activations') :
                               activations'[i].app = a /\ activations'[i].mobile = m}
             IN  /\ Cardinality(after) = 1
                 /\ before # {} => /\ activations' = activations
                                   /\ Msg(s, "duplicate activation", 0) \in out'
                 /\ before = {} => /\ Len(activations') = Len(activations) + 1
                                   /\ activations'[Len(activations')].status = "pending"
                                   /\ activations'[Len(activations')].email
                                        = user_data[s].email]_vars

\* one chat is still waiting for its channel send, the other chat (another
\* user) submitted the same pair meanwhile and got the duplicate error
C2_Witness ==
    \E s \in Users2, r \in Users2 :
        /\ s # r
        /\ pending[r].active
        /\ user_data[s].email # user_data[r].email
        /\ user_data[s].selected_app = pending[r].app
        /\ Msg(s, "duplicate activation", 0) \in out
        /\ Cardinality({i \in 1..Len(activations) :
                           activations[i].app = pending[r].app}) = 1

(* C3  Once an Activation is approved or rejected no later step changes     *)
(*     its status or its reason.                                            *)
C3_ResolvedIsFinal ==
    [][\A i \in 1..Len(activations) :
          activations[i].status # "pending"
              => /\ activations'[i].status = activations[i].status
                 /\ activations'[i].reason = activations[i].reason]_vars

(* C4  is_duplicate(app, mobile), for a mobile given with or without        *)
(*     spaces, is true exactly when the ledger holds a pending or approved  *)
(*     record of that app and of the mobile without its spaces.             *)
SpacedForms(m) ==
    {m, <<" ">> \o m, m \o <<" ">>, SubSeq(m, 1, 5) \o <<" ">> \o SubSeq(m, 6, Len(m))}
C4_IsDuplicateIff ==
    \A a \in PressedApps \cup {Mstock}, m \in {Mobile1, Mobile2} :
        \A given \in SpacedForms(m) :
            is_duplicate(activations, a, given)
                <=> ActiveRecords(activations, a, m) # {}

\* a rejected record of the pair and an active record of another app: the
\* pair is no duplicate, the other app's pair is, another mobile is not
C4_Witness ==
    /\ \E i \in 1..Len(activations) :
            /\ activations[i].app = Angelone /\ activations[i].mobile = Mobile1
            /\ activations[i].status = "rejected"
    /\ ~is_duplicate(activations, Angelone, <<" ">> \o Mobile1)
    /\ is_duplicate(activations, Upstox, <<" ">> \o Mobile1)
    /\ ~is_duplicate(activations, Upstox, Mobile2)

(* C5  A valid proof submission whose (app, mobile) has a pending or        *)
(*     approved record gets the duplicate error and leaves the ledger as    *)
(*     it was.                                                              *)
C5_DuplicateLeavesLedger ==
    [][\A s \in Identities, media \in Media, caption \in Captions :
          (/\ process_activation_proof(s, media, caption)
           /\ ValidProof(user_data[s].selected_app, media, caption)
           /\ ActiveRecords(activations, user_data[s].selected_app,
                            Strip(caption)) # {})
          => /\ activations' = activations
             /\ Msg(s, "duplicate activation", 0) \in out']_vars

C5_Witness ==
    \E s \in Identities :
        /\ Msg(s, "duplicate activation", 0) \in out
        /\ ActiveRecords(activations, user_data[s].selected_app, Mobile1) # {}

(* C6  A valid proof submission whose (app, mobile) is no duplicate         *)
(*     appends exactly one Activation with the session's email, the         *)
(*     selected app, the normalized mobile, status pending and reason       *)
(*     "pending", and leaves the earlier records unchanged.                 *)
C6_ValidSubmissionAppends ==
    [][\A s \in Identities, media \in Media, caption \in Captions :
          (/\ process_activation_proof(s, media, caption)
           /\ ValidProof(user_data[s].selected_app, media, caption)
           /\ ActiveRecords(activations, user_data[s].selected_app,
                            Strip(caption)) = {})
          => /\ Len(activations') = Len(activations) + 1
             /\ SubSeq(activations', 1, Len(activations)) = activations
             /\ LET new == activations'[Len(activations')]
                IN  /\ new.email = user_data[s].email
                    /\ new.app = user_data[s].selected_app
                    /\ new.mobile = Strip(caption)
                    /\ new.status = "pending"
                    /\ new.reason = PendingStr]_vars

(* C7  (as claimed) An approve decision on a record that still has its      *)
(*     submission-time reason leaves it approved with reason "pending".     *)
C7_ApproveKeepsReason ==
    [][\A data \in DecisionData :
          \A i \in Matches(activations, decision_target(data)) :
              (/\ ApproveStep(data)
               /\ i = Min(Matches(activations, decision_target(data)))
               /\ activations[i].status = "pending"
               /\ activations[i].reason = PendingStr)
              => /\ activations'[i].status = "approved"
                 /\ activations'[i].reason = PendingStr]_vars

(* C7  (amended) An approve decision, which supplies no reason code, sets   *)
(*     the first record matching the (email, app, mobile) it names to       *)
(*     status approved and reason "0"; a reject-with-reason decision sets   *)
(*     that record's reason to the reason code.                             *)
C7_ApproveSetsReasonZero ==
    [][\A data \in DecisionData :
          Matches(activations, decision_target(data)) # {} =>
            LET i == Min(Matches(activations, decision_target(data)))
            IN  /\ ApproveStep(data)
                    => /\ activations'[i].status = "approved"
                       /\ activations'[i].reason = ZeroStr
                /\ ReasonStep(data)
                    => activations'[i].reason = SplitData[data][2]]_vars

\* a record approved straight after its submission
C7_Witness ==
    \E i \in 1..Len(activations) :
        /\ activations[i].status = "approved"
        /\ activations[i].reason = ZeroStr
        /\ activations[i].timestamp = activations[i].submission_date + 1

(* C8  A reject-with-reason decision on a matching record yields status     *)
(*     approved exactly when the app is angelone and the code is the        *)
(*     conditional-approval code, and rejected in every other case.         *)
C8_OverrideOnlyAngelone ==
    [][\A data \in DecisionData :
          (/\ ReasonStep(data)
           /\ Matches(activations, decision_target(data)) # {})
          => LET i == Min(Matches(activations, decision_target(data)))
             IN  /\ activations'[i].status \in {"approved", "rejected"}
                 /\ activations'[i].status = "approved"
                      <=> /\ activations[i].app = Angelone
                          /\ SplitData[data][2] = RNt]_vars

\* the conditional-approval code approved an angelone record and rejected a
\* record of another app
C8_Witness ==
    /\ \E i \in 1..Len(activations) :
            /\ activations[i].app = Angelone /\ activations[i].reason = RNt
            /\ activations[i].status = "approved"
    /\ \E i \in 1..Len(activations) :
            /\ activations[i].app = Upstox /\ activations[i].reason = RNt
            /\ activations[i].status = "rejected"

(* C9  A decision that names an (email, app, mobile) no Activation matches  *)
(*     leaves the ledger unchanged, shows the operator an error and no      *)
(*     approved/rejected confirmation, and notifies no submitter.           *)
C9_NotFoundShowsError ==
    [][\A data \in DecisionData :
          (/\ ApproveStep(data) \/ ReasonStep(data)
           /\ decision_target(data) # <<>>
           /\ Matches(activations, decision_target(data)) = {})
          => /\ activations' = activations
             /\ \A msg \in out' : msg.kind \notin ConfirmationKinds
             /\ \E msg \in out' : msg.kind \in FailureKinds
             /\ \A msg \in out' : msg.to \notin Identities \ Operators]_vars

(* C10 A decision applied to an existing Activation sends an outcome        *)
(*     notification to the chat of the user who submitted it.               *)
C10_SubmitterNotified ==
    [][\A data \in DecisionData :
          (/\ ApproveStep(data) \/ ReasonStep(data)
           /\ Matches(activations, decision_target(data)) # {})
          => \E msg \in out' :
                msg.to \in SubmitterChats(decision_target(data)[1])]_vars

(* C11 A reject-with-reason decision with code c on an existing Activation  *)
(*     shows as its reason the catalog's text for c when the catalog has c, *)
(*     and c itself when it has not.                                        *)
ResolvedReason(code) == IF code \in REJECTION_REASONS THEN ReasonText(code) ELSE code
C11_UnknownCodeIsLiteral ==
    [][\A tr \in surfaces, code \in ReviewReasons :
          LET data == ReasonData(code, tr[1], tr[2], tr[3])
          IN  (ReasonStep(data) /\ Matches(activations, decision_target(data)) # {})
              => \A msg \in out' :
                    msg.kind \in ConfirmationKinds \cup {"caption: rejected",
                                                         "caption: approved"}
                        => msg.text = ResolvedReason(code)]_vars

C13_ChatIdBoundOnce ==
    [][/\ \A i \in 1..Len(users) :
            users[i].chat_id # NoChat
                => i <= Len(users') /\ users'[i].chat_id = users[i].chat_id
       /\ \A s \in Users2, text \in PasswordTexts :
            (password_input(s, text) /\ conv'[s] = MAIN_MENU)
            => \A i \in 1..Len(users) :
                    users[i].email = user_data[s].email
                        => users'[i].chat_id = IF users[i].chat_id = NoChat
                                               THEN s ELSE users[i].chat_id]_vars

\* a user bound to the first chat that logged in, a second chat logged in as
\* the same user, and a user whose chat id an add_user call filled
C13_Witness ==
    /\ \E i \in 1..Len(users) : users[i].email = EmailA /\ users[i].chat_id = "u1"
    /\ conv["u2"] = MAIN_MENU /\ user_data["u2"].email = EmailA
    /\ conv["u1"] = MAIN_MENU /\ user_data["u1"].email = EmailU
    /\ \E i \in 1..Len(users) : users[i].email = EmailU /\ users[i].chat_id = "u1"

\* the records whose email is email, ignoring letter case
SameEmail(us, email) == {i \in 1..Len(us) : Lower(us[i].email) = Lower(email)}

(* C14 (as claimed) add_user on an email already present returns "already   *)
(*     exists" and changes nothing when the stored User has a chat id; when *)
(*     it has none it returns "chat_id updated" and sets only that User's   *)
(*     chat id.  No second record of the email appears.                     *)
C14_RegisterExisting ==
    [][\A email \in RegisterEmails, chat_id \in RegisterChats :
          (register_call(email, PassC, NameC, chat_id)
              /\ SameEmail(users, email) # {})
          => LET i == Min(SameEmail(users, email))
             IN  /\ Len(users') = Len(users)
                 /\ users[i].chat_id # NoChat
                        => /\ users' = users
                           /\ MsgText("caller", "User already exists", 0, email) \in out'
                 /\ users[i].chat_id = NoChat
                        => /\ users' = [users EXCEPT ![i].chat_id = chat_id]
                           /\ MsgText("caller", "User chat_id updated", 0, email) \in out']_vars

(* C14 (amended) As claimed, except that "chat_id updated" is returned, and *)
(*     the chat id set, only when the call supplies a chat id; a call that  *)
(*     supplies none returns "already exists" and changes nothing.          *)
C14_RegisterExistingWithChat ==
    [][\A email \in RegisterEmails, chat_id \in RegisterChats :
          (register_call(email, PassC, NameC, chat_id)
              /\ SameEmail(users, email) # {})
          => LET i == Min(SameEmail(users, email))
             IN  /\ Len(users') = Len(users)
                 /\ (users[i].chat_id # NoChat \/ chat_id = NoChat)
                        => /\ users' = users
                           /\ MsgText("caller", "User already exists", 0, email) \in out'
                 /\ (users[i].chat_id = NoChat /\ chat_id # NoChat)
                        => /\ users' = [users EXCEPT ![i].chat_id = chat_id]
                           /\ MsgText("caller", "User chat_id updated", 0, email) \in out']_vars

\* a call with a chat id filled the chat id of a user registered without one
C14_Witness ==
    /\ MsgText("caller", "User chat_id updated", 0, EmailA) \in out
    /\ \E i \in 1..Len(users) :
            /\ users[i].email = EmailA /\ users[i].chat_id = "u2"
            /\ users[i].password = PassA /\ users[i].name = NameA

(* C15 Malformed email text changes nothing in the email step, and a bulk   *)
(*     registration creates and updates no User whose email is malformed.   *)
C15_MalformedEmailTouchesNothing ==
    [][/\ \A s \in Identities, text \in EmailTexts :
            (email_input(s, text) /\ ~EmailRegex(Lower(Strip(text))))
            => users' = users /\ user_data' = user_data /\ conv'[s] = EMAIL
       /\ \A text \in IngestTexts :
            add_user_handler(OPERATOR, text)
            => \A i \in 1..Len(users') :
                    ~EmailRegex(users'[i].email)
                        => i <= Len(users) /\ users'[i] = users[i]]_vars

(* C16 In every reachable state no two User records have emails that are    *)
(*     equal ignoring letter case.                                          *)
C16_EmailsUnique ==
    \A i \in 1..Len(users), j \in 1..Len(users) :
        i # j => Lower(users[i].email) # Lower(users[j].email)

\* a registration of an email that differs from a stored one only in letter
\* case was refused, after another user was added
C16_Witness ==
    /\ MsgText("caller", "User already exists", 0, <<"A">> \o Tail(EmailA)) \in out
    /\ \E i \in 1..Len(users) : users[i].email = EmailC

\* a proof message that process_activation_proof turns down: wrong media kind
\* for the selected app, a caption that is not ten digits, or a duplicate
ValidationFailure(s, media, caption) ==
    /\ Truthy(user_data[s].selected_app)
    /\ \/ ~ValidProof(user_data[s].selected_app, media, caption)
       \/ ActiveRecords(activations, user_data[s].selected_app, Strip(caption)) # {}

(* C17 Every validation failure of a proof message leaves the session in    *)
(*     ACTIVATION_PROOF with the selected app unchanged and creates no      *)
(*     Activation.                                                          *)
C17_FailureStaysInProof ==
    [][\A s \in Identities, media \in Media, caption \in Captions :
          (process_activation_proof(s, media, caption)
           /\ ValidationFailure(s, media, caption))
          => /\ conv'[s] = ACTIVATION_PROOF
             /\ user_data'[s].selected_app = user_data[s].selected_app
             /\ activations' = activations]_vars

(* C17 (amended) A wrong media kind or a caption that is not ten digits     *)
(*     leaves the session in ACTIVATION_PROOF, a duplicate moves it to      *)
(*     MAIN_MENU; each leaves the selected app unchanged and creates no     *)
(*     Activation.                                                          *)
C17_FailureKeepsAppAndLedger ==
    [][\A s \in Identities, media \in Media, caption \in Captions :
          (process_activation_proof(s, media, caption)
           /\ ValidationFailure(s, media, caption))
          => /\ conv'[s] = IF ValidProof(user_data[s].selected_app, media, caption)
                           THEN MAIN_MENU ELSE ACTIVATION_PROOF
             /\ user_data'[s].selected_app = user_data[s].selected_app
             /\ activations' = activations]_vars

\* a duplicate was turned down: the session is in MAIN_MENU with its app
C17_Witness ==
    \E s \in Identities :
        /\ Msg(s, "duplicate activation", 0) \in out
        /\ conv[s] = MAIN_MENU
        /\ Truthy(user_data[s].selected_app)
        /\ Len(activations) = 1

\* the media kind is one the app takes
MediaKindOk(app, media) ==
    media = "video" \/ (media = "photo" /\ app \in SCREENSHOT_APPS)

(* C18 Proof validation runs media kind, then caption, then duplicate       *)
(*     check: a wrong media kind gets the media error whatever the caption, *)
(*     and a caption that is not exactly ten digits gets the caption error  *)
(*     whatever the ledger holds, and the ledger stays as it was.           *)
C18_MediaThenCaptionThenLedger ==
    [][\A s \in Identities, media \in Media, caption \in Captions :
          (process_activation_proof(s, media, caption)
           /\ Truthy(user_data[s].selected_app))
          => LET app == user_data[s].selected_app
             IN  /\ ~MediaKindOk(app, media)
                        => /\ out' = {Msg(s, "wrong media", 0)}
                           /\ activations' = activations
                 /\ (MediaKindOk(app, media) /\ ~ValidProof(app, media, caption))
                        => /\ out' = {Msg(s, "invalid mobile number", 0)}
                           /\ activations' = activations]_vars

\* a caption was turned down for its shape while the ledger holds an active
\* record of the selected app and of the mobile the caption spells with a space
C18_Witness ==
    \E s \in Identities :
        /\ Msg(s, "invalid mobile number", 0) \in out
        /\ is_duplicate(activations, user_data[s].selected_app, SpacedMobile1)

(* C19 A proof message creates an Activation only when its media kind is    *)
(*     one the selected app takes: a video, or a photo for an app of        *)
(*     SCREENSHOT_APPS; a photo sent for any other app creates no record.   *)
C19_RecordOnlyFromAcceptedMedia ==
    [][\A s \in Identities, media \in Media, caption \in Captions :
          process_activation_proof(s, media, caption)
          => /\ Len(activations') > Len(activations)
                    => MediaKindOk(user_data[s].selected_app, media)
             /\ (media = "photo" /\ user_data[s].selected_app \notin SCREENSHOT_APPS)
                    => activations' = activations]_vars

\* a photo sent for an app of SCREENSHOT_APPS created a record, while a record
\* of an app outside the subset exists
C19_Witness ==
    \E s \in Identities :
        /\ pending[s].active
        /\ pending[s].media_type = "photo"
        /\ pending[s].app \in SCREENSHOT_APPS
        /\ \E i \in 1..Len(activations) :
                /\ activations[i].app = pending[s].app
                /\ activations[i].mobile = pending[s].mobile
        /\ \E i \in 1..Len(activations) : activations[i].app \notin SCREENSHOT_APPS

(* C20 A valid proof message that is no duplicate writes its record before  *)
(*     anything is posted to the channel; the channel post follows; the     *)
(*     session then is in MAIN_MENU with the selected app kept, and the     *)
(*     'same_app' button leads from there to ACTIVATION_PROOF for that app. *)
C20_SubmitPresentMenuShortcut ==
    [][\A s \in Identities :
          /\ \A media \in Media, caption \in Captions :
                (/\ process_activation_proof(s, media, caption)
                 /\ ValidProof(user_data[s].selected_app, media, caption)
                 /\ ActiveRecords(activations, user_data[s].selected_app,
                                  Strip(caption)) = {})
                => /\ Len(activations') = Len(activations) + 1
                   /\ activations'[Len(activations')].app = user_data[s].selected_app
                   /\ activations'[Len(activations')].mobile = Strip(caption)
                   /\ \A msg \in out' : msg.kind # "review surface"
                   /\ pending'[s].active
                   /\ pending'[s].app = user_data[s].selected_app
          /\ \A sent \in BOOLEAN, alerted \in BOOLEAN :
                proof_delivery(s, sent, alerted)
                => /\ Matches(activations, <<pending[s].email, pending[s].app,
                                             pending[s].mobile>>) # {}
                   /\ sent => \E msg \in out' :
                                msg.kind = "review surface" /\ msg.to = env.CHANNEL_ID
                   /\ conv'[s] = MAIN_MENU
                   /\ user_data'[s].selected_app = pending[s].app
          /\ (send_activation_proof(s, "same_app") /\ Truthy(user_data[s].selected_app))
                => /\ conv'[s] = ACTIVATION_PROOF
                   /\ user_data'[s].selected_app = user_data[s].selected_app]_vars

(* C21 A cancel in any conversation state leaves the identity with an empty *)
(*     session and no active conversation state, and leaves users and       *)
(*     activations as they were.                                            *)
C21_CancelResetsSession ==
    [][\A s \in Identities :
          cancel(s)
          => /\ user_data'[s] = EmptyData
             /\ conv'[s] = END
             /\ admin_conv'[s] = END
             /\ users' = users
             /\ activations' = activations]_vars

\* s is in the bulk registration state of one of the two conversations
InIngest(s) == admin_conv[s] = ADD_USER \/ conv[s] = ADD_USER

(* C22 A session is in the bulk registration state, and a bulk registration *)
(*     message creates Users, only for the identity that ADMIN_CHAT_ID      *)
(*     names; with ADMIN_CHAT_ID unset no identity enters that state.       *)
C22_IngestOnlyOperator ==
    /\ [](\A s \in Identities :
            (InIngest(s) \/ user_data[s].admin_mode)
                => (env.ADMIN_CHAT_ID # NoChat /\ s = env.ADMIN_CHAT_ID))
    /\ [][Len(users') > Len(users)
            => /\ env.ADMIN_CHAT_ID \in Identities
               /\ \E text \in IngestTexts : add_user_handler(env.ADMIN_CHAT_ID, text)]_vars

\* the operator is in the bulk registration state and has created a User,
\* and another chat's /adduser was turned down
C22_Witness ==
    /\ InIngest(OPERATOR)
    /\ Len(users) > Len(InitUsers)
    /\ Msg("u1", "admin only", 0) \in out
    /\ ~InIngest("u1")

\* the record the suspended submission of s wrote: the last one of its triple
SubmittedRecord(s) ==
    Max(Matches(activations, <<pending[s].email, pending[s].app, pending[s].mobile>>))

(* C23 When the channel send of a submission fails, the record it wrote     *)
(*     stays in the ledger as pending with no message_id, the failure is    *)
(*     sent to ADMIN_CHAT_ID, and the session ends in MAIN_MENU.            *)
C23_DeliveryFailureKeepsRecord ==
    [][\A s \in Identities, alerted \in BOOLEAN :
          proof_delivery(s, FALSE, alerted)
          => /\ activations' = activations
             /\ Matches(activations, <<pending[s].email, pending[s].app,
                                       pending[s].mobile>>) # {}
             /\ activations'[SubmittedRecord(s)].status = "pending"
             /\ activations'[SubmittedRecord(s)].message_id = 0
             /\ alerted => Msg(env.ADMIN_CHAT_ID, "failed to send to channel", 0) \in out'
             /\ conv'[s] = MAIN_MENU]_vars

\* a failed channel send was reported while the record is pending and bare
C23_Witness ==
    /\ Msg(env.ADMIN_CHAT_ID, "failed to send to channel", 0) \in out
    /\ \E s \in Identities :
            /\ Msg(s, "activation submitted", 0) \in out
            /\ conv[s] = MAIN_MENU
    /\ \E i \in 1..Len(activations) :
            activations[i].status = "pending" /\ activations[i].message_id = 0

\* a step of s in which the handler's catch-all takes an exception: the
\* status view or the same-app button without the session key they read, or
\* a channel send and the alert about it both failing
CatchAllStep(s) ==
    \/ activation_status(s) /\ user_data[s].email = None
    \/ send_activation_proof(s, "same_app") /\ user_data[s].selected_app = None
    \/ proof_delivery(s, FALSE, FALSE)

(* C24 An unexpected failure inside a user-facing operation leaves the      *)
(*     session in the conversation state it was in when the event arrived.  *)
C24_FailureKeepsState ==
    [][\A s \in Identities : CatchAllStep(s) => conv'[s] = conv[s]]_vars

\* e reads local@domain.tld: a local part and a domain that are not empty and
\* a top-level domain of two letters or more
WellFormedEmail(e) ==
    \E i \in 1..Len(e), j \in 1..Len(e) :
        /\ i + 2 <= j /\ j + 3 <= Len(e)
        /\ e[i + 1] = "@" /\ e[j + 1] = "."
        /\ \A k \in 1..i : e[k] \in LocalChars
        /\ \A k \in (i + 2)..j : e[k] \in DomainChars
        /\ \A k \in (j + 2)..Len(e) : e[k] \in Letters

(* C25 The email step advances to the password step exactly when the text,  *)
(*     trimmed and lowercased, is a well-formed email; any other text       *)
(*     leaves the session in the email step with nothing but the reply      *)
(*     changed, so the step can be repeated without limit.                  *)
C25_EmailStepAdvancesOnValid ==
    [][\A s \in Identities, text \in EmailTexts :
          email_input(s, text)
          => IF WellFormedEmail(Lower(Strip(text)))
             THEN conv'[s] = PASSWORD
             ELSE /\ conv'[s] = EMAIL
                  /\ UNCHANGED <<env, users, activations, conv, admin_conv, user_data,
                                 pending, now, next_message_id, surfaces>>]_vars

\* a malformed text was turned down in the email step, in a session that
\* earlier got past it
C25_Witness ==
    \E s \in Identities :
        /\ Msg(s, "invalid email format", 0) \in out
        /\ conv[s] = EMAIL
        /\ user_data[s].email # None

\* s moves into ACTIVATION_PROOF from another conversation state
EntersProof(s) == conv[s] # ACTIVATION_PROOF /\ conv'[s] = ACTIVATION_PROOF

\* the status, guide and rules views stay in MAIN_MENU and change no record
ViewsStay(s) ==
    (activation_status(s) \/ \E data \in {"guide", "rules"} : show_guide_rules(s, data))
        => /\ conv'[s] = MAIN_MENU
           /\ users' = users
           /\ activations' = activations

\* ACTIVATION_PROOF is entered from APP_SELECTION, or from MAIN_MENU by the
\* same-app button with an app in the session
ProofEntryPaths(s) ==
    EntersProof(s)
        => \/ conv[s] = APP_SELECTION
           \/ /\ conv[s] = MAIN_MENU
              /\ send_activation_proof(s, "same_app")
              /\ Truthy(user_data[s].selected_app)

(* C26 (as claimed) In MAIN_MENU the views stay and change no record, the   *)
(*     'proof' button always leads to APP_SELECTION, and ACTIVATION_PROOF   *)
(*     is entered only from APP_SELECTION or by the same-app button with an *)
(*     app selected.                                                        *)
C26_ProofAlwaysToSelection ==
    [][\A s \in Identities :
          /\ ViewsStay(s)
          /\ send_activation_proof(s, "proof") => conv'[s] = APP_SELECTION
          /\ ProofEntryPaths(s)]_vars

(* C26 (amended) As above, but the 'proof' button leads to APP_SELECTION    *)
(*     when the catalog lists an app and stays in MAIN_MENU when it lists   *)
(*     none.                                                                *)
C26_ProofToSelectionIfCatalog ==
    [][\A s \in Identities :
          /\ ViewsStay(s)
          /\ send_activation_proof(s, "proof")
                => conv'[s] = IF \E i \in 1..Len(env.APP_FILE) :
                                     Strip(env.APP_FILE[i]) # <<>>
                                THEN APP_SELECTION ELSE MAIN_MENU
          /\ ProofEntryPaths(s)]_vars

\* with a catalog that lists no app the 'proof' button was answered in
\* MAIN_MENU
C26_Witness ==
    \E s \in Identities :
        /\ Msg(s, "no apps available", 0) \in out
        /\ conv[s] = MAIN_MENU
        /\ env.APP_FILE = <<>>

(* C27 A decision keeps the number of records; when a record matches,       *)
(*     exactly one record gets a decided status, a reason and the current   *)
(*     time as timestamp, its email, app, mobile and submission_date stay,  *)
(*     and every other record is unchanged.                                 *)
C27_DecisionRewritesOneRecord ==
    [][\A data \in DecisionData :
          (ApproveStep(data) \/ ReasonStep(data))
          => LET hits == Matches(activations, decision_target(data))
             IN  /\ Len(activations') = Len(activations)
                 /\ hits = {} => activations' = activations
                 /\ hits # {} =>
                      \E i \in hits :
                        /\ \A j \in 1..Len(activations) :
                                j # i => activations'[j] = activations[j]
                        /\ activations'[i].email = activations[i].email
                        /\ activations'[i].app = activations[i].app
                        /\ activations'[i].mobile = activations[i].mobile
                        /\ activations'[i].submission_date = activations[i].submission_date
                        /\ activations'[i].status \in {"approved", "rejected"}
                        /\ activations'[i].reason # PendingStr
                        /\ activations'[i].timestamp = now
                        /\ activations'[i].timestamp > activations[i].timestamp]_vars

\* a decision was applied while two records carried its triple: one of them
\* is decided and the other is as its submission wrote it
C27_Witness ==
    \E i \in 1..Len(activations), j \in 1..Len(activations) :
        /\ i # j
        /\ <<activations[i].email, activations[i].app, activations[i].mobile>>
             = <<activations[j].email, activations[j].app, activations[j].mobile>>
        /\ activations[i].status = "approved"
        /\ activations[j].status = "pending"
        /\ activations[i].timestamp > activations[j].timestamp
        /\ Msg(QueryMessage, "approved activation", 0) \in out

(* C28 A decision callback that comes from an identity other than           *)
(*     ADMIN_CHAT_ID leaves the ledger unchanged.                           *)
C28_OnlyOperatorDecides ==
    [][\A actor \in Identities \ {env.ADMIN_CHAT_ID}, data \in DecisionData,
          c \in BOOLEAN, t \in BOOLEAN :
          (admin_approve(actor, data, c, t) \/ process_rejection(actor, data, c, t))
          => activations' = activations]_vars

\* the review surface of every record, the latest included, was posted
AllSurfacesPosted == next_message_id = Len(activations) + 1

(* C29 When a rejected record and a later pending record carry the same     *)
(*     (email, app, mobile) and the surface of the later one was posted, a  *)
(*     decision on that triple resolves the pending record and leaves the   *)
(*     rejected one as it was.                                              *)
C29_DecisionReachesResubmission ==
    [][\A data \in DecisionData :
          (AllSurfacesPosted /\ (ApproveStep(data) \/ ReasonStep(data)))
          => \A i \in Matches(activations, decision_target(data)),
                k \in Matches(activations, decision_target(data)) :
                (/\ i < k
                 /\ activations[i].status = "rejected"
                 /\ activations[k].status = "pending")
                => /\ activations'[i] = activations[i]
                   /\ activations'[k].status # "pending"]_vars

(* C30 A delivered review surface has its message_id stored on the record   *)
(*     its submission wrote, and every other record keeps its own.          *)
C30_ReferenceOnOwnRecord ==
    [][\A s \in Identities :
          proof_delivery(s, TRUE, TRUE)
          => /\ activations'[SubmittedRecord(s)].message_id = next_message_id
             /\ \A j \in 1..Len(activations) :
                    j # SubmittedRecord(s) => activations'[j] = activations[j]]_vars

(* C31 The controls of every posted review surface carry callback data from *)
(*     which the approve and the reason handlers take the very (email, app, *)
(*     mobile) of the submission, also when the email contains '_'.         *)
C31_ControlsDecodeTriple ==
    \A tr \in surfaces :
        /\ decision_target(ApproveData(tr[1], tr[2], tr[3])) = tr
        /\ \A code \in PressedReasons :
                decision_target(ReasonData(code, tr[1], tr[2], tr[3])) = tr

(* C32 A session in MAIN_MENU, APP_SELECTION or ACTIVATION_PROOF holds the   *)
(*     email, and the name the login copied, of a User in the store.        *)
C32_PostLoginHoldsEmail ==
    \A s \in Identities :
        conv[s] \in {MAIN_MENU, APP_SELECTION, ACTIVATION_PROOF}
            => \E i \in 1..Len(users) :
                    /\ users[i].email = user_data[s].email
                    /\ users[i].name = user_data[s].name

\* this step is the plain Reject callback of the surface of tr
RejectStep(tr) ==
    \E actor \in Operators, t \in BOOLEAN :
        admin_reject(actor, RejectData(tr[1], tr[2], tr[3]), t)

(* C33 Pressing the plain Reject control changes no record: a pending       *)
(*     record of the surface stays pending and its (app, mobile) is still a *)
(*     duplicate; a status becomes rejected only in a step that carries a   *)
(*     reason code.                                                         *)
C33_RejectAloneChangesNothing ==
    [][/\ \A tr \in surfaces :
            RejectStep(tr)
            => /\ activations' = activations
               /\ \A i \in Matches(activations, tr) :
                      activations[i].status = "pending"
                        => /\ activations'[i].status = "pending"
                           /\ is_duplicate(activations', tr[2], tr[3])
       /\ (\E i \in 1..Len(activations) :
                /\ activations[i].status # "rejected"
                /\ activations'[i].status = "rejected")
            => \E data \in DecisionData : ReasonStep(data)]_vars

\* the reason menu was shown for a surface whose record is pending
C33_Witness ==
    \E tr \in surfaces :
        /\ MsgText(QueryMessage, "select rejection reason", 0, tr[2]) \in out
        /\ \E i \in Matches(activations, tr) : activations[i].status = "pending"
        /\ is_duplicate(activations, tr[2], tr[3])

====
